---------------------------- MODULE Spec2Model ----------------------------
(***************************************************************************)
(* A model of wda/w3c_actions.py: the builders of W3C action payloads      *)
(* (FingerMovement, FingerAction, W3CActions) and of legacy touch action   *)
(* payloads (TouchMovement, TouchPress, TouchLongPress, TouchTap,          *)
(* TouchActions).                                                          *)
(*                                                                         *)
(* Python objects.  The caller holds one object of every class; each       *)
(* variable below is the __data of that object.  A Python list holds       *)
(* references, so a list is modelled as a sequence of slots: a slot is     *)
(* [ref |-> name] when it refers to the __data of the caller-held object   *)
(* `name` (the same dict or list, not a copy), and [own |-> value] when it *)
(* refers to an object nothing else refers to (a dict literal, or an       *)
(* object built inside a helper method and dropped on return).             *)
(*                                                                         *)
(* Numbers.  A number is an exact rational [n |-> numerator, d |->         *)
(* denominator], d > 0, in lowest terms.  Python floats round; the model   *)
(* computes the exact value of every arithmetic expression instead.        *)
(*                                                                         *)
(* None is the record [none |-> TRUE]; an element uid s is [uid |-> s].    *)
(***************************************************************************)
EXTENDS Integers, Sequences, FiniteSets, TLC

VARIABLES
    fm,      \* FingerMovement.__data of the caller's movement object
    fa,      \* FingerAction.__data of the caller's finger action object
    w3c,     \* W3CActions.__data
    tp,      \* __data of the caller's TouchMovement, TouchPress, TouchLongPress, TouchTap
    ta,      \* TouchActions.__data
    ret,     \* the object the last call returned ("none" before any call or when it raised)
    raised,  \* the exception the last call raised ("none" when it returned)
    last,    \* the last call: [op |-> method, ...arguments]
    calls    \* number of calls made so far

vars == <<fm, fa, w3c, tp, ta, ret, raised, last, calls>>

---------------------------------------------------------------------------
(* Bounds of the model. *)

\* Calls per behaviour in the specifications of the primitive operations.
MaxCalls == 3

\* Calls per behaviour in the specifications of the gesture helpers.
MaxGestures == 2

---------------------------------------------------------------------------
(* Exact rational arithmetic for Python's numbers. *)

Abs(i) == IF i < 0 THEN -i ELSE i

RECURSIVE GCD(_, _)
GCD(a, b) == IF b = 0 THEN a ELSE GCD(b, a % b)

\* n/d in lowest terms with a positive denominator (d # 0).
Norm(n, d) ==
    LET s == IF d < 0 THEN -1 ELSE 1
        g == GCD(Abs(n), Abs(d))
    IN  [n |-> (s * n) \div g, d |-> (s * d) \div g]

Num(i) == [n |-> i, d |-> 1]
Frac(n, d) == Norm(n, d)

Mul(a, b) == Norm(a.n * b.n, a.d * b.d)
Add(a, b) == Norm(a.n * b.d + b.n * a.d, a.d * b.d)
Sub(a, b) == Norm(a.n * b.d - b.n * a.d, a.d * b.d)
\* a / b for b # 0 (the callers test b first: Python raises ZeroDivisionError)
Div(a, b) == Norm(a.n * b.d, a.d * b.n)
Less(a, b) == a.n * b.d < b.n * a.d
IsZero(a) == a.n = 0

None == [none |-> TRUE]
Uid(s) == [uid |-> s]

\* A slot of a Python list: a reference to a caller-held object, or to an
\* object only this slot refers to.
Ref(name) == [ref |-> name]
Own(value) == [own |-> value]
IsRef(slot) == "ref" \in DOMAIN slot

---------------------------------------------------------------------------
(* FingerMovement *)

\* FingerMovement.__init__
FingerMovement_init == [type |-> "pointerMove"]

\* self.__data["x"] = x; self.__data["y"] = y
FingerMovement_with_xy(data, x, y) == ("x" :> x) @@ ("y" :> y) @@ data

\* a with_origin that removes the origin for None instead of keeping it
FingerMovement_with_origin_reset(data, element_uid) ==
    IF element_uid # None THEN ("origin" :> element_uid) @@ data
    ELSE [k \in DOMAIN data \ { "origin" } |-> data[k]]

\* if element_uid is not None: self.__data["origin"] = element_uid
FingerMovement_with_origin(data, element_uid) ==
    IF element_uid # None THEN ("origin" :> element_uid) @@ data ELSE data

\* a with_duration that stores 0 for None instead of leaving the field out
FingerMovement_with_duration_zero(data, second) ==
    ("duration" :> (IF second # None THEN Mul(second, Num(1000)) ELSE Num(0))) @@ data

\* if second is not None: self.__data["duration"] = second * 1000
FingerMovement_with_duration(data, second) ==
    IF second # None THEN ("duration" :> Mul(second, Num(1000))) @@ data ELSE data

---------------------------------------------------------------------------
(* FingerAction: the list operations, on a list of slots *)

\* FingerAction.__init__
FingerAction_init == << >>

\* self.__data.append(movement.data): movement.data is the movement's own dict
FingerAction_move(data, movement) == Append(data, movement)

\* a down() that inserts at the front instead of appending
FingerAction_down_front(data) == << Own([type |-> "pointerDown"]) >> \o data

\* self.__data.append({"type": "pointerDown"})
FingerAction_down(data) == Append(data, Own([type |-> "pointerDown"]))

\* self.__data.append({"type": "pointerUp"})
FingerAction_up(data) == Append(data, Own([type |-> "pointerUp"]))

\* the default of pause's parameter `second`
FingerAction_pause_default == Frac(1, 2)

\* if second < 0: second = 0.5
FingerAction_pause_second(second) ==
    IF Less(second, Num(0)) THEN Frac(1, 2) ELSE second

\* self.__data.append({"type": "pause", "duration": second * 1000})
FingerAction_pause(data, second) ==
    Append(data, Own([type |-> "pause",
                      duration |-> Mul(FingerAction_pause_second(second), Num(1000))]))

---------------------------------------------------------------------------
(* W3CActions *)

\* W3CActions.__init__
W3CActions_init == << >>

\* identifiers counted from 1 instead of 0
FormatId_from_one(prefix, data) == prefix \o ToString(Len(data) + 1)

\* f"keyboard{len(self.__data)}" and f"finger{len(self.__data)}"
FormatId(prefix, data) == prefix \o ToString(Len(data))

\* (a for a in [{"type": "keyDown", "value": v}, {"type": "keyUp", "value": v}]):
\* a generator object; the list it iterates is built when the generator is
\* created, so it yields these two dicts for this v.
KeyGenerator(v) ==
    [generator |-> << [type |-> "keyDown", value |-> v],
                      [type |-> "keyUp", value |-> v] >>]

\* "actions": [ (a for a in [...]) for v in text ]: one generator object per
\* character of text.
KeyActions(text) == [i \in 1..Len(text) |-> KeyGenerator(text[i])]

\* send_keys: append the keyboard timeline
W3CActions_send_keys(data, text) ==
    Append(data, [type |-> "key",
                  id |-> FormatId("keyboard", data),
                  actions |-> Own(KeyActions(text))])

\* inject_touch_actions: for action in actions: append a pointer timeline
\* whose "actions" is action.data, the finger action's own list
RECURSIVE W3CActions_inject_touch_actions(_, _)
W3CActions_inject_touch_actions(data, actions) ==
    IF actions = << >> THEN data
    ELSE W3CActions_inject_touch_actions(
            Append(data, [type |-> "pointer",
                          id |-> FormatId("finger", data),
                          parameters |-> [pointerType |-> "touch"],
                          actions |-> Head(actions)]),
            Tail(actions))

\* the defaults of tap's and press's parameter `second`
TapSeconds == Frac(1, 10)
PressSeconds == Num(2)

\* tap: movement = FingerMovement().with_xy(x, y).with_origin(element_uid)
\*      action = FingerAction().move(movement).down().pause(second).up()
\*      self.inject_touch_actions(action)
W3CActions_tap(data, x, y, element_uid, second) ==
    LET movement == FingerMovement_with_origin(
                        FingerMovement_with_xy(FingerMovement_init, x, y),
                        element_uid)
        action == FingerAction_up(
                    FingerAction_pause(
                      FingerAction_down(
                        FingerAction_move(FingerAction_init, Own(movement))),
                      second))
    IN  W3CActions_inject_touch_actions(data, << Own(action) >>)

\* a press that holds for its default whatever `second` is
W3CActions_press_fixed(data, x, y, element_uid, second) ==
    W3CActions_tap(data, x, y, element_uid, Num(2))

\* press: the same statements as tap
W3CActions_press(data, x, y, element_uid, second) ==
    LET movement == FingerMovement_with_origin(
                        FingerMovement_with_xy(FingerMovement_init, x, y),
                        element_uid)
        action == FingerAction_up(
                    FingerAction_pause(
                      FingerAction_down(
                        FingerAction_move(FingerAction_init, Own(movement))),
                      second))
    IN  W3CActions_inject_touch_actions(data, << Own(action) >>)

\* the defaults of swipe's press_seconds and hold_seconds
SwipePressSeconds == Frac(1, 4)
SwipeHoldSeconds == Frac(1, 4)

\* swipe: movement_from, movement_to, then
\* FingerAction().move(movement_from).down().pause(press_seconds)
\*     .move(movement_from).move(movement_to).pause(hold_seconds).up()
\* movement_from is appended twice: both slots refer to the one dict, which
\* nothing refers to once swipe has returned.
W3CActions_swipe(data, from_x, from_y, to_x, to_y, element_uid,
                 press_seconds, swipe_seconds, hold_seconds) ==
    LET movement_from == FingerMovement_with_origin(
                            FingerMovement_with_xy(FingerMovement_init, from_x, from_y),
                            element_uid)
        movement_to == FingerMovement_with_duration(
                          FingerMovement_with_origin(
                            FingerMovement_with_xy(FingerMovement_init, to_x, to_y),
                            element_uid),
                          swipe_seconds)
        a1 == FingerAction_move(FingerAction_init, Own(movement_from))
        a2 == FingerAction_down(a1)
        a3 == FingerAction_pause(a2, press_seconds)
        a4 == FingerAction_move(a3, Own(movement_from))
        a5 == FingerAction_move(a4, Own(movement_to))
        a6 == FingerAction_pause(a5, hold_seconds)
        action == FingerAction_up(a6)
    IN  W3CActions_inject_touch_actions(data, << Own(action) >>)

---------------------------------------------------------------------------
(* TouchMovement, TouchPress, TouchLongPress, TouchTap *)

\* dict(): the empty dict
EmptyDict == << >>

\* the four __init__ methods
TouchMovement_init == [action |-> "moveTo", options |-> EmptyDict]
TouchPress_init == [action |-> "press", options |-> EmptyDict]
TouchLongPress_init == [action |-> "longPress", options |-> EmptyDict]
TouchTap_init == [action |-> "tap", options |-> EmptyDict]

\* self.__data["options"]["x"] = x; self.__data["options"]["y"] = y
TouchMovement_with_xy(data, x, y) ==
    [data EXCEPT !.options = ("x" :> x) @@ ("y" :> y) @@ @]
TouchPress_with_xy(data, x, y) ==
    [data EXCEPT !.options = ("x" :> x) @@ ("y" :> y) @@ @]
TouchLongPress_with_xy(data, x, y) ==
    [data EXCEPT !.options = ("x" :> x) @@ ("y" :> y) @@ @]
TouchTap_with_xy(data, x, y) ==
    [data EXCEPT !.options = ("x" :> x) @@ ("y" :> y) @@ @]

\* if element_uid is not None: self.__data["options"]["element"] = element_uid
TouchMovement_with_origin(data, element_uid) ==
    IF element_uid # None
    THEN [data EXCEPT !.options = ("element" :> element_uid) @@ @] ELSE data
TouchPress_with_origin(data, element_uid) ==
    IF element_uid # None
    THEN [data EXCEPT !.options = ("element" :> element_uid) @@ @] ELSE data
TouchLongPress_with_origin(data, element_uid) ==
    IF element_uid # None
    THEN [data EXCEPT !.options = ("element" :> element_uid) @@ @] ELSE data
TouchTap_with_origin(data, element_uid) ==
    IF element_uid # None
    THEN [data EXCEPT !.options = ("element" :> element_uid) @@ @] ELSE data

\* self.__data["options"]["pressure"] = pressure
TouchPress_with_pressure(data, pressure) ==
    [data EXCEPT !.options = ("pressure" :> pressure) @@ @]

\* self.__data["options"]["count"] = count
TouchTap_with_count(data, count) ==
    [data EXCEPT !.options = ("count" :> count) @@ @]

---------------------------------------------------------------------------
(* TouchActions: the list operations, on a list of slots *)

\* TouchActions.__init__
TouchActions_init == << >>

\* self.__data.append(movement.data), (press.data), (long_press.data), (tap.data)
TouchActions_move(data, movement) == Append(data, movement)
TouchActions_press(data, press) == Append(data, press)
TouchActions_long_press(data, long_press) == Append(data, long_press)
TouchActions_tap(data, tap) == Append(data, tap)

\* the default of pause's parameter `second`
TouchActions_pause_default == Frac(1, 2)

\* a pause that clamps a negative second to 0 instead of the default
TouchActions_pause_second_clamp(second) ==
    IF Less(second, Num(0)) THEN Num(0) ELSE second

\* if second < 0: second = 0.5
TouchActions_pause_second(second) ==
    IF Less(second, Num(0)) THEN Frac(1, 2) ELSE second

\* self.__data.append({"action": "wait", "options": {"ms": second * 1000}})
TouchActions_pause(data, second) ==
    Append(data, Own([action |-> "wait",
                      options |-> [ms |-> Mul(TouchActions_pause_second(second), Num(1000))]]))

\* self.__data.append({"action": "release"})
TouchActions_up(data) == Append(data, Own([action |-> "release"]))

\* self.__data.append({"action": "cancel"})
TouchActions_cancel(data) == Append(data, Own([action |-> "cancel"]))

\* the defaults of swipe's press_seconds, delta and hold_seconds
TouchSwipePressSeconds == Frac(1, 4)
TouchSwipeDelta == Num(10)
TouchSwipeHoldSeconds == Frac(1, 4)

\* pow(to_y - from_y, 2) + pow(to_x - from_x, 2)
SquaredDistance(from_x, from_y, to_x, to_y) ==
    Add(Mul(Sub(to_y, from_y), Sub(to_y, from_y)),
        Mul(Sub(to_x, from_x), Sub(to_x, from_x)))

\* the largest k >= from with k * |delta| <= sqrt(d2), that is
\* k^2 * delta^2 <= d2 (delta # 0, d2 >= 0)
RECURSIVE WholeSteps(_, _, _)
WholeSteps(k, d2, delta) ==
    IF (k + 1) * (k + 1) * delta.n * delta.n * d2.d <= d2.n * delta.d * delta.d
    THEN WholeSteps(k + 1, d2, delta)
    ELSE k

\* int(sqrt(d2) / delta) for delta # 0: int() truncates towards zero
SwipeSteps(d2, delta) ==
    IF Less(delta, Num(0)) THEN -WholeSteps(0, d2, delta)
    ELSE WholeSteps(0, d2, delta)

\* a swipe that waits without pressing first
SwipePress_none(data, from_x, from_y, element_uid, press_seconds) ==
    TouchActions_pause(data, press_seconds)

\* self.press(TouchPress().with_xy(from_x, from_y).with_origin(element_uid))
\*     .pause(press_seconds)
SwipePress(data, from_x, from_y, element_uid, press_seconds) ==
    TouchActions_pause(
        TouchActions_press(data,
            Own(TouchPress_with_origin(
                    TouchPress_with_xy(TouchPress_init, from_x, from_y),
                    element_uid))),
        press_seconds)

\* self.move(TouchMovement().with_xy(x, y).with_origin(element_uid)).pause(second)
SwipeMove(data, x, y, element_uid, second) ==
    TouchActions_pause(
        TouchActions_move(data,
            Own(TouchMovement_with_origin(
                    TouchMovement_with_xy(TouchMovement_init, x, y),
                    element_uid))),
        second)

\* a loop over range(1, steps): one iteration short
SwipeLoop_short(data, steps, from_x, from_y, dx, dy, element_uid, interval) ==
    data \o [j \in 1..(2 * (steps - 1)) |->
                IF j % 2 = 1
                THEN Own([action |-> "moveTo",
                          options |-> ("x" :> Add(from_x, Mul(Num((j + 1) \div 2), dx)))
                                      @@ ("y" :> Add(from_y, Mul(Num((j + 1) \div 2), dy)))
                                      @@ (IF element_uid # None
                                          THEN "element" :> element_uid ELSE << >>)])
                ELSE Own([action |-> "wait",
                          options |-> [ms |-> Mul(IF Less(interval, Num(0))
                                                  THEN Frac(1, 2) ELSE interval,
                                                  Num(1000))]])]

\* for i in range(1, steps + 1):
\*     self.move(TouchMovement().with_xy(from_x + i * dx, from_y + i * dy)
\*         .with_origin(element_uid)).pause(interval)
\* Iteration i appends slots 2i-1 (the move) and 2i (the pause) after data;
\* there is no iteration when steps < 1.
SwipeLoop(data, steps, from_x, from_y, dx, dy, element_uid, interval) ==
    data \o [j \in 1..(2 * steps) |->
                IF j % 2 = 1
                THEN TouchActions_move(<< >>,
                        Own(TouchMovement_with_origin(
                              TouchMovement_with_xy(TouchMovement_init,
                                  Add(from_x, Mul(Num((j + 1) \div 2), dx)),
                                  Add(from_y, Mul(Num((j + 1) \div 2), dy))),
                              element_uid)))[1]
                ELSE TouchActions_pause(<< >>, interval)[1]]

\* a swipe that always releases
SwipeUp_always(data, up) == TouchActions_up(data)

\* if up: self.up()
SwipeUp(data, up) == IF up THEN TouchActions_up(data) ELSE data

\* the branch `if swipe_seconds is None`
SwipeInstant(data, from_x, from_y, to_x, to_y, element_uid,
             press_seconds, hold_seconds, up) ==
    SwipeUp(
        SwipeMove(
            SwipePress(data, from_x, from_y, element_uid, press_seconds),
            to_x, to_y, element_uid, hold_seconds),
        up)

\* the else branch, once steps is known to be non-zero
SwipeInterpolated(data, from_x, from_y, to_x, to_y, element_uid,
                  press_seconds, swipe_seconds, steps, hold_seconds, up) ==
    LET dx == Div(Sub(to_x, from_x), Num(steps))
        dy == Div(Sub(to_y, from_y), Num(steps))
        interval == Div(swipe_seconds, Num(steps))
        pressed == SwipePress(data, from_x, from_y, element_uid, press_seconds)
        moved == SwipeLoop(pressed, steps, from_x, from_y, dx, dy,
                           element_uid, interval)
        landed == SwipeMove(moved,
                            Add(from_x, Mul(Num(steps), dx)),
                            Add(from_y, Mul(Num(steps), dy)),
                            element_uid, hold_seconds)
    IN  SwipeUp(landed, up)

\* TouchActions.swipe: [raised, data].  distance / delta raises
\* ZeroDivisionError when delta is 0, and float(to_x - from_x) / steps raises
\* it when steps is 0; both come before the first append.
TouchActions_swipe(data, from_x, from_y, to_x, to_y, element_uid,
                   press_seconds, swipe_seconds, delta, hold_seconds, up) ==
    IF swipe_seconds = None
    THEN [raised |-> "none",
          data |-> SwipeInstant(data, from_x, from_y, to_x, to_y, element_uid,
                                press_seconds, hold_seconds, up)]
    ELSE IF IsZero(delta)
    THEN [raised |-> "ZeroDivisionError", data |-> data]
    ELSE LET steps == SwipeSteps(SquaredDistance(from_x, from_y, to_x, to_y), delta)
         IN  IF steps = 0
             THEN [raised |-> "ZeroDivisionError", data |-> data]
             ELSE [raised |-> "none",
                   data |-> SwipeInterpolated(data, from_x, from_y, to_x, to_y,
                                              element_uid, press_seconds, swipe_seconds,
                                              steps, hold_seconds, up)]

---------------------------------------------------------------------------
(* The state after construction of the eight objects. *)

Init ==
    /\ fm = FingerMovement_init
    /\ fa = FingerAction_init
    /\ w3c = W3CActions_init
    /\ tp = [TouchMovement |-> TouchMovement_init,
             TouchPress |-> TouchPress_init,
             TouchLongPress |-> TouchLongPress_init,
             TouchTap |-> TouchTap_init]
    /\ ta = TouchActions_init
    /\ ret = "none"
    /\ raised = "none"
    /\ last = [op |-> "none"]
    /\ calls = 0

\* An argument left out of a call: the parameter's default is used.
Omitted == [omitted |-> TRUE]
OrDefault(arg, default) == IF arg = Omitted THEN default ELSE arg

\* `return self`
Returns(self) == ret' = self /\ raised' = "none" /\ calls' = calls + 1

---------------------------------------------------------------------------
(* Calls on the caller's FingerMovement and FingerAction *)

CallFingerMovement_with_xy(x, y) ==
    /\ fm' = FingerMovement_with_xy(fm, x, y)
    /\ last' = [op |-> "FingerMovement.with_xy", x |-> x, y |-> y]
    /\ Returns("fm")
    /\ UNCHANGED <<fa, w3c, tp, ta>>

CallFingerMovement_with_origin(element_uid) ==
    /\ fm' = FingerMovement_with_origin(fm, element_uid)
    /\ last' = [op |-> "FingerMovement.with_origin", element_uid |-> element_uid]
    /\ Returns("fm")
    /\ UNCHANGED <<fa, w3c, tp, ta>>

CallFingerMovement_with_duration(second) ==
    /\ fm' = FingerMovement_with_duration(fm, second)
    /\ last' = [op |-> "FingerMovement.with_duration", second |-> second]
    /\ Returns("fm")
    /\ UNCHANGED <<fa, w3c, tp, ta>>

\* fa.move(fm): the argument is the caller's movement object
CallFingerAction_move ==
    /\ fa' = FingerAction_move(fa, Ref("fm"))
    /\ last' = [op |-> "FingerAction.move"]
    /\ Returns("fa")
    /\ UNCHANGED <<fm, w3c, tp, ta>>

CallFingerAction_down ==
    /\ fa' = FingerAction_down(fa)
    /\ last' = [op |-> "FingerAction.down"]
    /\ Returns("fa")
    /\ UNCHANGED <<fm, w3c, tp, ta>>

CallFingerAction_up ==
    /\ fa' = FingerAction_up(fa)
    /\ last' = [op |-> "FingerAction.up"]
    /\ Returns("fa")
    /\ UNCHANGED <<fm, w3c, tp, ta>>

CallFingerAction_pause(second) ==
    /\ fa' = FingerAction_pause(fa, OrDefault(second, FingerAction_pause_default))
    /\ last' = [op |-> "FingerAction.pause", second |-> second]
    /\ Returns("fa")
    /\ UNCHANGED <<fm, w3c, tp, ta>>

---------------------------------------------------------------------------
(* Calls on the W3CActions object *)

CallW3CActions_send_keys(text) ==
    /\ w3c' = W3CActions_send_keys(w3c, text)
    /\ last' = [op |-> "W3CActions.send_keys", text |-> text]
    /\ Returns("w3c")
    /\ UNCHANGED <<fm, fa, tp, ta>>

\* w3c.inject_touch_actions(fa, ..., fa) with n arguments, each the caller's
\* finger action object
CallW3CActions_inject_touch_actions(n) ==
    /\ w3c' = W3CActions_inject_touch_actions(w3c, [i \in 1..n |-> Ref("fa")])
    /\ last' = [op |-> "W3CActions.inject_touch_actions", n |-> n]
    /\ Returns("w3c")
    /\ UNCHANGED <<fm, fa, tp, ta>>

CallW3CActions_tap(x, y, element_uid, second) ==
    /\ w3c' = W3CActions_tap(w3c, x, y, element_uid, OrDefault(second, TapSeconds))
    /\ last' = [op |-> "W3CActions.tap", x |-> x, y |-> y,
                element_uid |-> element_uid, second |-> second]
    /\ Returns("w3c")
    /\ UNCHANGED <<fm, fa, tp, ta>>

CallW3CActions_press(x, y, element_uid, second) ==
    /\ w3c' = W3CActions_press(w3c, x, y, element_uid, OrDefault(second, PressSeconds))
    /\ last' = [op |-> "W3CActions.press", x |-> x, y |-> y,
                element_uid |-> element_uid, second |-> second]
    /\ Returns("w3c")
    /\ UNCHANGED <<fm, fa, tp, ta>>

CallW3CActions_swipe(from_x, from_y, to_x, to_y, element_uid,
                     press_seconds, swipe_seconds, hold_seconds) ==
    /\ w3c' = W3CActions_swipe(w3c, from_x, from_y, to_x, to_y, element_uid,
                               OrDefault(press_seconds, SwipePressSeconds),
                               swipe_seconds,
                               OrDefault(hold_seconds, SwipeHoldSeconds))
    /\ last' = [op |-> "W3CActions.swipe", from_x |-> from_x, from_y |-> from_y,
                to_x |-> to_x, to_y |-> to_y, element_uid |-> element_uid,
                press_seconds |-> press_seconds, swipe_seconds |-> swipe_seconds,
                hold_seconds |-> hold_seconds]
    /\ Returns("w3c")
    /\ UNCHANGED <<fm, fa, tp, ta>>

---------------------------------------------------------------------------
(* Calls on the caller's TouchMovement, TouchPress, TouchLongPress, TouchTap *)

CallTouchMovement_with_xy(x, y) ==
    /\ tp' = [tp EXCEPT !.TouchMovement = TouchMovement_with_xy(@, x, y)]
    /\ last' = [op |-> "TouchMovement.with_xy", x |-> x, y |-> y]
    /\ Returns("TouchMovement")
    /\ UNCHANGED <<fm, fa, w3c, ta>>

CallTouchPress_with_xy(x, y) ==
    /\ tp' = [tp EXCEPT !.TouchPress = TouchPress_with_xy(@, x, y)]
    /\ last' = [op |-> "TouchPress.with_xy", x |-> x, y |-> y]
    /\ Returns("TouchPress")
    /\ UNCHANGED <<fm, fa, w3c, ta>>

CallTouchLongPress_with_xy(x, y) ==
    /\ tp' = [tp EXCEPT !.TouchLongPress = TouchLongPress_with_xy(@, x, y)]
    /\ last' = [op |-> "TouchLongPress.with_xy", x |-> x, y |-> y]
    /\ Returns("TouchLongPress")
    /\ UNCHANGED <<fm, fa, w3c, ta>>

CallTouchTap_with_xy(x, y) ==
    /\ tp' = [tp EXCEPT !.TouchTap = TouchTap_with_xy(@, x, y)]
    /\ last' = [op |-> "TouchTap.with_xy", x |-> x, y |-> y]
    /\ Returns("TouchTap")
    /\ UNCHANGED <<fm, fa, w3c, ta>>

CallTouchMovement_with_origin(element_uid) ==
    /\ tp' = [tp EXCEPT !.TouchMovement = TouchMovement_with_origin(@, element_uid)]
    /\ last' = [op |-> "TouchMovement.with_origin", element_uid |-> element_uid]
    /\ Returns("TouchMovement")
    /\ UNCHANGED <<fm, fa, w3c, ta>>

CallTouchPress_with_origin(element_uid) ==
    /\ tp' = [tp EXCEPT !.TouchPress = TouchPress_with_origin(@, element_uid)]
    /\ last' = [op |-> "TouchPress.with_origin", element_uid |-> element_uid]
    /\ Returns("TouchPress")
    /\ UNCHANGED <<fm, fa, w3c, ta>>

CallTouchLongPress_with_origin(element_uid) ==
    /\ tp' = [tp EXCEPT !.TouchLongPress = TouchLongPress_with_origin(@, element_uid)]
    /\ last' = [op |-> "TouchLongPress.with_origin", element_uid |-> element_uid]
    /\ Returns("TouchLongPress")
    /\ UNCHANGED <<fm, fa, w3c, ta>>

CallTouchTap_with_origin(element_uid) ==
    /\ tp' = [tp EXCEPT !.TouchTap = TouchTap_with_origin(@, element_uid)]
    /\ last' = [op |-> "TouchTap.with_origin", element_uid |-> element_uid]
    /\ Returns("TouchTap")
    /\ UNCHANGED <<fm, fa, w3c, ta>>

CallTouchPress_with_pressure(pressure) ==
    /\ tp' = [tp EXCEPT !.TouchPress = TouchPress_with_pressure(@, pressure)]
    /\ last' = [op |-> "TouchPress.with_pressure", pressure |-> pressure]
    /\ Returns("TouchPress")
    /\ UNCHANGED <<fm, fa, w3c, ta>>

CallTouchTap_with_count(count) ==
    /\ tp' = [tp EXCEPT !.TouchTap = TouchTap_with_count(@, count)]
    /\ last' = [op |-> "TouchTap.with_count", count |-> count]
    /\ Returns("TouchTap")
    /\ UNCHANGED <<fm, fa, w3c, ta>>

---------------------------------------------------------------------------
(* Calls on the TouchActions object *)

\* ta.move(the caller's TouchMovement)
CallTouchActions_move ==
    /\ ta' = TouchActions_move(ta, Ref("TouchMovement"))
    /\ last' = [op |-> "TouchActions.move"]
    /\ Returns("ta")
    /\ UNCHANGED <<fm, fa, w3c, tp>>

CallTouchActions_press ==
    /\ ta' = TouchActions_press(ta, Ref("TouchPress"))
    /\ last' = [op |-> "TouchActions.press"]
    /\ Returns("ta")
    /\ UNCHANGED <<fm, fa, w3c, tp>>

CallTouchActions_long_press ==
    /\ ta' = TouchActions_long_press(ta, Ref("TouchLongPress"))
    /\ last' = [op |-> "TouchActions.long_press"]
    /\ Returns("ta")
    /\ UNCHANGED <<fm, fa, w3c, tp>>

CallTouchActions_tap ==
    /\ ta' = TouchActions_tap(ta, Ref("TouchTap"))
    /\ last' = [op |-> "TouchActions.tap"]
    /\ Returns("ta")
    /\ UNCHANGED <<fm, fa, w3c, tp>>

CallTouchActions_pause(second) ==
    /\ ta' = TouchActions_pause(ta, OrDefault(second, TouchActions_pause_default))
    /\ last' = [op |-> "TouchActions.pause", second |-> second]
    /\ Returns("ta")
    /\ UNCHANGED <<fm, fa, w3c, tp>>

CallTouchActions_up ==
    /\ ta' = TouchActions_up(ta)
    /\ last' = [op |-> "TouchActions.up"]
    /\ Returns("ta")
    /\ UNCHANGED <<fm, fa, w3c, tp>>

CallTouchActions_cancel ==
    /\ ta' = TouchActions_cancel(ta)
    /\ last' = [op |-> "TouchActions.cancel"]
    /\ Returns("ta")
    /\ UNCHANGED <<fm, fa, w3c, tp>>

\* swipe returns self, or raises and leaves the list as it was
CallTouchActions_swipe(from_x, from_y, to_x, to_y, element_uid,
                       press_seconds, swipe_seconds, delta, hold_seconds, up) ==
    \E r \in { TouchActions_swipe(ta, from_x, from_y, to_x, to_y, element_uid,
                                  OrDefault(press_seconds, TouchSwipePressSeconds),
                                  swipe_seconds,
                                  OrDefault(delta, TouchSwipeDelta),
                                  OrDefault(hold_seconds, TouchSwipeHoldSeconds),
                                  up) } :
        /\ ta' = r.data
        /\ raised' = r.raised
        /\ ret' = IF r.raised = "none" THEN "ta" ELSE "none"
        /\ calls' = calls + 1
        /\ last' = [op |-> "TouchActions.swipe", from_x |-> from_x, from_y |-> from_y,
                    to_x |-> to_x, to_y |-> to_y, element_uid |-> element_uid,
                    press_seconds |-> press_seconds, swipe_seconds |-> swipe_seconds,
                    delta |-> delta, hold_seconds |-> hold_seconds, up |-> up]
        /\ UNCHANGED <<fm, fa, w3c, tp>>

---------------------------------------------------------------------------
(* Arguments the specifications draw from *)

\* coordinates handed to with_xy, tap and press
Points == { <<Num(0), Num(0)>>, <<Num(3), Num(4)>> }

\* element_uid: None or the uid of an element
Origins == { None, Uid("el") }

\* `second` of pause, tap and press: left out, negative, zero, positive
PauseArgs == { Omitted, Num(-1), Frac(-5, 2), Num(0), Frac(1, 4), Num(2) }

\* text of send_keys, as the sequence of its characters
Texts == { << >>, <<"a">>, <<"a", "b">>, <<"a", "a">> }

---------------------------------------------------------------------------
(* SpecAppend: the append operations of the three sequence builders *)

NextAppend ==
    \/ calls < MaxCalls /\ CallFingerAction_move
    \/ calls < MaxCalls /\ CallFingerAction_down
    \/ calls < MaxCalls /\ CallFingerAction_up
    \/ calls < MaxCalls /\ \E second \in PauseArgs : CallFingerAction_pause(second)
    \/ calls < MaxCalls /\ \E text \in Texts : CallW3CActions_send_keys(text)
    \/ calls < MaxCalls /\ CallW3CActions_inject_touch_actions(1)
    \/ calls < MaxCalls /\ CallTouchActions_move
    \/ calls < MaxCalls /\ CallTouchActions_press
    \/ calls < MaxCalls /\ CallTouchActions_long_press
    \/ calls < MaxCalls /\ CallTouchActions_tap
    \/ calls < MaxCalls /\ \E second \in PauseArgs : CallTouchActions_pause(second)
    \/ calls < MaxCalls /\ CallTouchActions_up
    \/ calls < MaxCalls /\ CallTouchActions_cancel

SpecAppend == Init /\ [][NextAppend]_vars

---------------------------------------------------------------------------
(* Reading a payload: every slot replaced by the content it refers to *)

\* the dict a slot of fa refers to
FingerEntry(slot) == IF IsRef(slot) THEN fm ELSE slot.own

\* fa.data as the caller reads it
FingerPayload(data) == [i \in 1..Len(data) |-> FingerEntry(data[i])]

\* the list of a timeline: its "actions" slot refers to fa's list or to a
\* list of its own
TimelineActions(timeline) ==
    IF IsRef(timeline.actions) THEN fa ELSE timeline.actions.own

\* the dict a slot of ta refers to
TouchEntry(slot) == IF IsRef(slot) THEN tp[slot.ref] ELSE slot.own

\* ta.data as the caller reads it
TouchPayload(data) == [i \in 1..Len(data) |-> TouchEntry(data[i])]

---------------------------------------------------------------------------
(* C1 *)

FingerAppends == { "FingerAction.move", "FingerAction.down", "FingerAction.up",
                   "FingerAction.pause" }
TouchAppends == { "TouchActions.move", "TouchActions.press", "TouchActions.long_press",
                  "TouchActions.tap", "TouchActions.pause", "TouchActions.up",
                  "TouchActions.cancel" }
SetAppends == { "W3CActions.send_keys", "W3CActions.inject_touch_actions" }

\* what the slot appended by a call refers to
AppendedBy(call, slot) ==
    CASE call.op = "FingerAction.move" -> slot = Ref("fm")
      [] call.op = "FingerAction.down" -> slot = Own([type |-> "pointerDown"])
      [] call.op = "FingerAction.up" -> slot = Own([type |-> "pointerUp"])
      [] call.op = "FingerAction.pause" -> ~IsRef(slot) /\ slot.own.type = "pause"
      [] call.op = "TouchActions.move" -> slot = Ref("TouchMovement")
      [] call.op = "TouchActions.press" -> slot = Ref("TouchPress")
      [] call.op = "TouchActions.long_press" -> slot = Ref("TouchLongPress")
      [] call.op = "TouchActions.tap" -> slot = Ref("TouchTap")
      [] call.op = "TouchActions.pause" -> ~IsRef(slot) /\ slot.own.action = "wait"
      [] call.op = "TouchActions.up" -> slot = Own([action |-> "release"])
      [] call.op = "TouchActions.cancel" -> slot = Own([action |-> "cancel"])
      [] call.op = "W3CActions.send_keys" ->
            slot.type = "key" /\ Len(slot.actions.own) = Len(call.text)
      [] call.op = "W3CActions.inject_touch_actions" ->
            slot.type = "pointer" /\ slot.actions = Ref("fa")

\* `after` is `before` with one slot added at the end, the one `call` appends
AppendedOne(before, after, call) ==
    /\ Len(after) = Len(before) + 1
    /\ SubSeq(after, 1, Len(before)) = before
    /\ AppendedBy(call, after[Len(after)])

\* C1: every append call on a builder (FingerAction move/down/up/pause,
\* TouchActions move/press/long_press/tap/pause/up/cancel, W3CActions
\* send_keys and inject_touch_actions with one argument) adds exactly one
\* entry at the end of that builder's list, the entry of that call, and
\* leaves the entries before it, and the other builders' lists, as they
\* were: the list is the calls' entries in call order, repeats included.
C1_AppendInCallOrder ==
    [][ calls' = calls + 1 =>
          /\ IF last'.op \in FingerAppends THEN AppendedOne(fa, fa', last') ELSE fa' = fa
          /\ IF last'.op \in TouchAppends THEN AppendedOne(ta, ta', last') ELSE ta' = ta
          /\ IF last'.op \in SetAppends THEN AppendedOne(w3c, w3c', last') ELSE w3c' = w3c
      ]_vars

\* three finger entries, the first two identical, the third another kind,
\* last appended by up()
C1_Witness ==
    /\ last.op = "FingerAction.up"
    /\ Len(fa) = 3
    /\ fa[1] = Own([type |-> "pointerDown"])
    /\ fa[2] = fa[1]
    /\ fa[3] = Own([type |-> "pointerUp"])

---------------------------------------------------------------------------
(* C3 *)

\* the milliseconds pause(second) is to store
PauseMs(second) ==
    IF second = Omitted THEN Num(500)
    ELSE IF second.n < 0 THEN Num(500)
    ELSE Frac(second.n * 1000, second.d)

\* C3: FingerAction.pause and TouchActions.pause never raise; the entry they
\* append stores exactly 500 ms for every negative second and when second is
\* left out, and second * 1000 ms for every second >= 0.
C3_PauseDuration ==
    /\ last.op = "FingerAction.pause" =>
          /\ raised = "none"
          /\ fa # << >>
          /\ fa[Len(fa)] = Own([type |-> "pause", duration |-> PauseMs(last.second)])
    /\ last.op = "TouchActions.pause" =>
          /\ raised = "none"
          /\ ta # << >>
          /\ ta[Len(ta)] = Own([action |-> "wait",
                                options |-> [ms |-> PauseMs(last.second)]])

\* a negative pause other than -1 stored as 500 ms, after a pause of 0 stored as 0 ms
C3_Witness ==
    /\ last.op = "TouchActions.pause"
    /\ last.second = Frac(-5, 2)
    /\ Len(ta) = 2
    /\ ta[1] = Own([action |-> "wait", options |-> [ms |-> Num(0)]])
    /\ ta[2] = Own([action |-> "wait", options |-> [ms |-> Num(500)]])

---------------------------------------------------------------------------
(* SpecSet: the five operations that add timelines to a W3CActions set *)

\* number of finger actions handed to one inject_touch_actions call
InjectCounts == 0..2

NextSet ==
    \/ calls < MaxCalls /\ CallFingerAction_down
    \/ calls < MaxCalls /\ \E text \in { <<"a">>, <<"a", "b">> } : CallW3CActions_send_keys(text)
    \/ calls < MaxCalls /\ \E n \in InjectCounts : CallW3CActions_inject_touch_actions(n)
    \/ calls < MaxCalls /\ \E p \in Points : CallW3CActions_tap(p[1], p[2], None, Omitted)
    \/ calls < MaxCalls /\ \E p \in Points : CallW3CActions_press(p[1], p[2], None, Omitted)
    \/ calls < MaxCalls /\ \E p \in Points :
           CallW3CActions_swipe(Num(0), Num(0), p[1], p[2], None, Omitted, None, Omitted)

SpecSet == Init /\ [][NextSet]_vars

---------------------------------------------------------------------------
(* C2 *)

\* the identifier of a timeline of this type at 0-based position k
IdAt(type, k) ==
    IF type = "key" THEN "keyboard" \o ToString(k) ELSE "finger" \o ToString(k)

IdsNumbered ==
    \A i \in 1..Len(w3c) : w3c[i].id = IdAt(w3c[i].type, i - 1)

IdsDistinct ==
    \A i, j \in 1..Len(w3c) : i # j => w3c[i].id # w3c[j].id

IdsKept ==
    \A i \in 1..Len(w3c) : i <= Len(w3c') /\ w3c'[i].id = w3c[i].id

\* C2: in a W3CActions set built by send_keys, inject_touch_actions (zero,
\* one or several finger actions), tap, press and swipe, the identifiers of
\* the timelines are pairwise distinct, the timeline at position i (from 0)
\* carries the number i, and no call changes an identifier already assigned.
C2_TimelineIds == [](IdsNumbered /\ IdsDistinct) /\ [][IdsKept]_vars

\* finger0, finger1 from one inject call, keyboard2, and finger3 from a swipe
C2_Witness ==
    /\ last.op = "W3CActions.swipe"
    /\ Len(w3c) = 4
    /\ w3c[1].id = "finger0" /\ w3c[2].id = "finger1"
    /\ w3c[3].id = "keyboard2" /\ w3c[4].id = "finger3"

---------------------------------------------------------------------------
(* SpecGesture: send_keys and the gesture helpers of W3CActions *)

\* `second` of tap and press: left out, negative, zero, positive
HoldArgs == { Omitted, Num(-1), Num(0), Frac(1, 4) }

\* <<press_seconds, hold_seconds>> of swipe
PressHoldArgs == { <<Omitted, Omitted>>, <<Num(-1), Num(0)>>, <<Frac(1, 2), Frac(-5, 2)>> }

\* swipe_seconds of W3CActions.swipe
SwipeSecondsArgs == { None, Num(2) }

NextGesture ==
    \/ calls < MaxGestures /\ \E text \in Texts : CallW3CActions_send_keys(text)
    \/ calls < MaxGestures /\ \E p \in Points, e \in Origins, second \in HoldArgs :
           CallW3CActions_tap(p[1], p[2], e, second)
    \/ calls < MaxGestures /\ \E p \in Points, e \in Origins, second \in HoldArgs :
           CallW3CActions_press(p[1], p[2], e, second)
    \/ calls < MaxGestures /\ \E p \in Points, q \in Points, e \in Origins,
                                 ph \in PressHoldArgs, swipe_seconds \in SwipeSecondsArgs :
           CallW3CActions_swipe(p[1], p[2], q[1], q[2], e, ph[1], swipe_seconds, ph[2])

SpecGesture == Init /\ [][NextGesture]_vars

---------------------------------------------------------------------------
(* C4 *)

\* seconds * 1000
Ms(seconds) == Frac(seconds.n * 1000, seconds.d)

\* a pointerMove to (x, y): the origin only when given, the duration only when given
MoveTo(x, y, origin, duration) ==
    LET at == [type |-> "pointerMove", x |-> x, y |-> y]
        rel == IF origin = None THEN at ELSE at @@ [origin |-> origin]
    IN  IF duration = None THEN rel ELSE rel @@ [duration |-> duration]

\* the content of a timeline: its fields but the identifier, and the
\* primitives of its list
IsTouchTimeline(timeline, primitives) ==
    /\ DOMAIN timeline = {"type", "id", "parameters", "actions"}
    /\ timeline.type = "pointer"
    /\ timeline.parameters = [pointerType |-> "touch"]
    /\ ~IsRef(timeline.actions)
    /\ FingerPayload(timeline.actions.own) = primitives

\* `after` is `before` with exactly one timeline added at the end
OneMore(before, after) ==
    /\ Len(after) = Len(before) + 1
    /\ SubSeq(after, 1, Len(before)) = before

\* the hold of tap and press in ms: the default when left out
HoldMs(call) ==
    IF call.second # Omitted THEN Ms(call.second)
    ELSE IF call.op = "W3CActions.tap" THEN Num(100) ELSE Num(2000)

\* C4: tap and press, for every x, y, optional origin and hold s >= 0 (or
\* left out), append exactly one touch pointer timeline of exactly four
\* primitives: pointerMove to (x, y) with the origin only when given and no
\* duration, pointerDown, pause of s*1000 ms, pointerUp.  The content is the
\* same for tap and press but for the default hold, 100 ms and 2000 ms.
\* Both return the set builder.
C4_TapPress ==
    [][ ( /\ calls' = calls + 1
          /\ last'.op \in {"W3CActions.tap", "W3CActions.press"}
          /\ (last'.second = Omitted \/ ~Less(last'.second, Num(0))) )
        => /\ OneMore(w3c, w3c')
           /\ IsTouchTimeline(w3c'[Len(w3c')],
                << MoveTo(last'.x, last'.y, last'.element_uid, None),
                   [type |-> "pointerDown"],
                   [type |-> "pause", duration |-> HoldMs(last')],
                   [type |-> "pointerUp"] >>)
           /\ ret' = "w3c"
           /\ raised' = "none"
      ]_vars

\* a press with its default hold, relative to an element, after a tap with
\* its default hold
C4_Witness ==
    /\ last = [op |-> "W3CActions.press", x |-> Num(3), y |-> Num(4),
               element_uid |-> Uid("el"), second |-> Omitted]
    /\ Len(w3c) = 2
    /\ w3c[1].type = "pointer" /\ Len(w3c[1].actions.own) = 4
    /\ FingerPayload(w3c[1].actions.own)[3] = [type |-> "pause", duration |-> Num(100)]
    /\ FingerPayload(w3c[2].actions.own)[3] = [type |-> "pause", duration |-> Num(2000)]
    /\ FingerPayload(w3c[2].actions.own)[1].origin = Uid("el")

---------------------------------------------------------------------------
(* C5 *)

\* press_seconds or hold_seconds, the default 0.25 when left out
SwipeSecondsOf(arg) == IF arg = Omitted THEN Frac(1, 4) ELSE arg

\* the duration of the move to the end point: absent when swipe_seconds is None
SwipeDuration(swipe_seconds) ==
    IF swipe_seconds = None THEN None ELSE Ms(swipe_seconds)

\* the seven primitives of a swipe with these two pauses
SwipePrimitives(call, press_ms, hold_ms) ==
    << MoveTo(call.from_x, call.from_y, call.element_uid, None),
       [type |-> "pointerDown"],
       [type |-> "pause", duration |-> press_ms],
       MoveTo(call.from_x, call.from_y, call.element_uid, None),
       MoveTo(call.to_x, call.to_y, call.element_uid, SwipeDuration(call.swipe_seconds)),
       [type |-> "pause", duration |-> hold_ms],
       [type |-> "pointerUp"] >>

IsW3CSwipe == calls' = calls + 1 /\ last'.op = "W3CActions.swipe"

\* C5 as claimed: the two pauses store press_seconds*1000 and
\* hold_seconds*1000, whatever their sign.
C5_SwipeAsClaimed ==
    [][ IsW3CSwipe =>
          /\ OneMore(w3c, w3c')
          /\ IsTouchTimeline(w3c'[Len(w3c')],
                SwipePrimitives(last', Ms(SwipeSecondsOf(last'.press_seconds)),
                                       Ms(SwipeSecondsOf(last'.hold_seconds))))
      ]_vars

\* C5, amended: W3CActions.swipe appends exactly one touch pointer timeline
\* of exactly seven primitives: pointerMove(from), pointerDown, pause,
\* pointerMove(from), pointerMove(to), pause, pointerUp.  The first pause
\* stores press_seconds*1000 ms and the second hold_seconds*1000 ms when
\* that argument is >= 0, and 500 ms when it is negative.  Only the move to
\* the end point may carry a duration: swipe_seconds*1000 when swipe_seconds
\* is given, no field when it is None.  No other move is emitted.
C5_Swipe ==
    [][ IsW3CSwipe =>
          /\ OneMore(w3c, w3c')
          /\ IsTouchTimeline(w3c'[Len(w3c')],
                SwipePrimitives(last', PauseMs(SwipeSecondsOf(last'.press_seconds)),
                                       PauseMs(SwipeSecondsOf(last'.hold_seconds))))
          /\ ret' = "w3c"
      ]_vars

\* a swipe with swipe_seconds None and a negative hold_seconds, after a swipe
\* with swipe_seconds 2: the end move of the first carries 2000 ms, the end
\* move of the second no duration, and its second pause 500 ms
C5_Witness ==
    /\ last.op = "W3CActions.swipe"
    /\ last.swipe_seconds = None
    /\ last.hold_seconds = Frac(-5, 2)
    /\ Len(w3c) = 2
    /\ w3c[1].type = "pointer" /\ Len(w3c[1].actions.own) = 7
    /\ Len(w3c[2].actions.own) = 7
    /\ "duration" \in DOMAIN FingerPayload(w3c[1].actions.own)[5]
    /\ FingerPayload(w3c[1].actions.own)[5].duration = Num(2000)
    /\ "duration" \notin DOMAIN FingerPayload(w3c[2].actions.own)[5]
    /\ FingerPayload(w3c[2].actions.own)[6] = [type |-> "pause", duration |-> Num(500)]

---------------------------------------------------------------------------
(* C10 *)

\* keyDown c, keyUp c for every character c of text, in order, as one flat list
RECURSIVE KeyPrimitives(_)
KeyPrimitives(text) ==
    IF text = << >> THEN << >>
    ELSE << [type |-> "keyDown", value |-> Head(text)],
            [type |-> "keyUp", value |-> Head(text)] >> \o KeyPrimitives(Tail(text))

\* C10 as claimed: send_keys(text) appends exactly one timeline of type key
\* whose actions list is the flat sequence keyDown c, keyUp c for each
\* character c of text in order, 2*len(text) key primitives, and returns
\* the set builder.
C10_SendKeysFlat ==
    [][ (calls' = calls + 1 /\ last'.op = "W3CActions.send_keys") =>
          /\ OneMore(w3c, w3c')
          /\ w3c'[Len(w3c')].type = "key"
          /\ Len(w3c'[Len(w3c')].actions.own) = 2 * Len(last'.text)
          /\ w3c'[Len(w3c')].actions.own = KeyPrimitives(last'.text)
          /\ ret' = "w3c"
      ]_vars

---------------------------------------------------------------------------
(* SpecAlias: the caller keeps configuring and extending objects it has
   already appended or injected *)

NextAlias ==
    \/ calls < MaxCalls /\ \E p \in Points : CallFingerMovement_with_xy(p[1], p[2])
    \/ calls < MaxCalls /\ \E e \in Origins : CallFingerMovement_with_origin(e)
    \/ calls < MaxCalls /\ \E second \in {None, Num(1)} : CallFingerMovement_with_duration(second)
    \/ calls < MaxCalls /\ CallFingerAction_move
    \/ calls < MaxCalls /\ CallFingerAction_down
    \/ calls < MaxCalls /\ \E n \in {1, 2} : CallW3CActions_inject_touch_actions(n)
    \/ calls < MaxCalls /\ \E p \in Points : CallTouchMovement_with_xy(p[1], p[2])
    \/ calls < MaxCalls /\ \E p \in Points : CallTouchPress_with_xy(p[1], p[2])
    \/ calls < MaxCalls /\ \E p \in Points : CallTouchLongPress_with_xy(p[1], p[2])
    \/ calls < MaxCalls /\ \E p \in Points : CallTouchTap_with_xy(p[1], p[2])
    \/ calls < MaxCalls /\ \E e \in Origins : CallTouchMovement_with_origin(e)
    \/ calls < MaxCalls /\ \E e \in Origins : CallTouchPress_with_origin(e)
    \/ calls < MaxCalls /\ \E e \in Origins : CallTouchLongPress_with_origin(e)
    \/ calls < MaxCalls /\ \E e \in Origins : CallTouchTap_with_origin(e)
    \/ calls < MaxCalls /\ CallTouchPress_with_pressure(Frac(1, 2))
    \/ calls < MaxCalls /\ CallTouchTap_with_count(Num(2))
    \/ calls < MaxCalls /\ CallTouchActions_move
    \/ calls < MaxCalls /\ CallTouchActions_press
    \/ calls < MaxCalls /\ CallTouchActions_long_press
    \/ calls < MaxCalls /\ CallTouchActions_tap

SpecAlias == Init /\ [][NextAlias]_vars

---------------------------------------------------------------------------
(* C9 *)

\* w3c.data as the caller reads it: every pointer timeline with the
\* primitives of its list
SetPayload(data) ==
    [i \in 1..Len(data) |->
        IF data[i].type = "pointer"
        THEN [data[i] EXCEPT !.actions = FingerPayload(TimelineActions(data[i]))]
        ELSE data[i]]

MovementConfig == { "FingerMovement.with_xy", "FingerMovement.with_origin",
                    "FingerMovement.with_duration" }
TouchConfig == { "TouchMovement.with_xy", "TouchMovement.with_origin",
                 "TouchPress.with_xy", "TouchPress.with_origin", "TouchPress.with_pressure",
                 "TouchLongPress.with_xy", "TouchLongPress.with_origin",
                 "TouchTap.with_xy", "TouchTap.with_origin", "TouchTap.with_count" }

\* C9 as claimed: once a movement, a touch primitive or a finger action has
\* been appended or injected, no later call on it (with_xy, with_origin,
\* with_duration, with_pressure, with_count; move, down, up, pause) changes
\* the content of the data of the builder it was appended to.
C9_AppendedIsFrozen ==
    [][ calls' = calls + 1 =>
          /\ last'.op \in MovementConfig =>
                /\ FingerPayload(fa)' = FingerPayload(fa)
                /\ SetPayload(w3c)' = SetPayload(w3c)
          /\ last'.op \in FingerAppends => SetPayload(w3c)' = SetPayload(w3c)
          /\ last'.op \in TouchConfig => TouchPayload(ta)' = TouchPayload(ta)
      ]_vars

---------------------------------------------------------------------------
(* SpecSwipeInstant: TouchActions.swipe with swipe_seconds None *)

\* delta of swipe: left out, zero, another step
DeltaArgs == { Omitted, Num(0), Num(3) }

NextSwipeInstant ==
    \/ calls < MaxGestures /\ CallTouchActions_cancel
    \/ calls < MaxGestures /\ \E p \in Points, e \in Origins, ph \in PressHoldArgs,
                                 delta \in DeltaArgs, up \in BOOLEAN :
           CallTouchActions_swipe(p[1], p[2], Num(3), Num(4), e, ph[1], None,
                                  delta, ph[2], up)

SpecSwipeInstant == Init /\ [][NextSwipeInstant]_vars

---------------------------------------------------------------------------
(* C8 *)

\* the options of a touch primitive at (x, y): the element only when given
At(x, y, origin) ==
    IF origin = None THEN [x |-> x, y |-> y]
    ELSE [x |-> x, y |-> y, element |-> origin]

TouchPressAt(x, y, origin) == [action |-> "press", options |-> At(x, y, origin)]
TouchMoveTo(x, y, origin) == [action |-> "moveTo", options |-> At(x, y, origin)]
TouchWait(ms) == [action |-> "wait", options |-> [ms |-> ms]]
TouchRelease(up) == IF up THEN << [action |-> "release"] >> ELSE << >>

\* `after` is `before` followed by these entries, each a dict of its own
Extended(before, after, entries) ==
    \E es \in { entries } : after = before \o [i \in 1..Len(es) |-> Own(es[i])]

IsTouchSwipe == calls' = calls + 1 /\ last'.op = "TouchActions.swipe"

\* an argument that is left out or >= 0
NotNegative(arg) == arg = Omitted \/ ~Less(arg, Num(0))

\* C8: with swipe_seconds None, for every start, end, origin, delta and
\* press/hold seconds >= 0, swipe appends exactly press(start),
\* wait(press_seconds*1000), moveTo(end), wait(hold_seconds*1000), then a
\* release when up is true and nothing when it is false.  No other move is
\* emitted, delta does not enter the result, and the coordinates and the
\* origin are stored as passed.
C8_SwipeInstant ==
    [][ ( /\ IsTouchSwipe
          /\ last'.swipe_seconds = None
          /\ NotNegative(last'.press_seconds)
          /\ NotNegative(last'.hold_seconds) )
        => /\ raised' = "none"
           /\ Extended(ta, ta',
                << TouchPressAt(last'.from_x, last'.from_y, last'.element_uid),
                   TouchWait(Ms(SwipeSecondsOf(last'.press_seconds))),
                   TouchMoveTo(last'.to_x, last'.to_y, last'.element_uid),
                   TouchWait(Ms(SwipeSecondsOf(last'.hold_seconds))) >>
                \o TouchRelease(last'.up))
      ]_vars

\* a swipe with delta 0 and up false after a swipe with up true: five
\* entries, then four ending with the hold wait
C8_Witness ==
    /\ last.op = "TouchActions.swipe"
    /\ last.swipe_seconds = None
    /\ last.delta = Num(0)
    /\ last.up = FALSE
    /\ last.press_seconds = Omitted
    /\ raised = "none"
    /\ Len(ta) = 9
    /\ ta[5] = Own([action |-> "release"])
    /\ ta[9] = Own(TouchWait(Num(250)))

---------------------------------------------------------------------------
(* SpecSwipeSteps: TouchActions.swipe with swipe_seconds given *)

\* <<from_x, from_y, to_x, to_y>>: lengths 100, sqrt(1525) and 0
SwipeLines ==
    { <<Num(0), Num(0), Num(100), Num(0)>>,
      <<Num(25), Num(30), Num(0), Num(0)>>,
      <<Num(5), Num(5), Num(5), Num(5)>> }

\* <<swipe_seconds, delta>>
SwipeTimings == { <<Num(1), Omitted>>, <<Num(0), Num(40)>> }

NextSwipeSteps ==
    \/ calls < MaxGestures /\ CallTouchActions_cancel
    \/ calls < MaxGestures /\ \E l \in SwipeLines, e \in Origins, ph \in PressHoldArgs,
                                 t \in SwipeTimings, up \in BOOLEAN :
           CallTouchActions_swipe(l[1], l[2], l[3], l[4], e, ph[1], t[1], t[2], ph[2], up)

SpecSwipeSteps == Init /\ [][NextSwipeSteps]_vars

---------------------------------------------------------------------------
(* C6 *)

\* delta, the default 10 when left out
DeltaOf(call) == IF call.delta = Omitted THEN Num(10) ELSE call.delta

\* (to_x - from_x)^2 + (to_y - from_y)^2
Distance2(call) ==
    Add(Mul(Sub(call.to_x, call.from_x), Sub(call.to_x, call.from_x)),
        Mul(Sub(call.to_y, call.from_y), Sub(call.to_y, call.from_y)))

\* floor(D / delta) for delta > 0: the k with k*delta <= D < (k+1)*delta
FloorSteps(call) ==
    LET d2 == Distance2(call)
        dd == Mul(DeltaOf(call), DeltaOf(call))
    IN  CHOOSE k \in 0..((d2.n + 1) * DeltaOf(call).d) :
            /\ ~Less(d2, Mul(Num(k * k), dd))
            /\ Less(d2, Mul(Num((k + 1) * (k + 1)), dd))

\* interpolated mode with swipe_seconds >= 0 and delta > 0
IsInterpolated(call) ==
    /\ call.swipe_seconds # None
    /\ ~Less(call.swipe_seconds, Num(0))
    /\ Less(Num(0), DeltaOf(call))

\* the i-th intermediate move, moveTo(start + i*(dx, dy)), and the wait
\* after it, swipe_seconds*1000/steps ms
StepMove(call, steps, i) ==
    TouchMoveTo(Add(call.from_x, Mul(Num(i), Div(Sub(call.to_x, call.from_x), Num(steps)))),
                Add(call.from_y, Mul(Num(i), Div(Sub(call.to_y, call.from_y), Num(steps)))),
                call.element_uid)
StepWait(call, steps) == TouchWait(Div(Ms(call.swipe_seconds), Num(steps)))

\* for i = 1..steps: the i-th move, then its wait
StepEntries(call, steps) ==
    [j \in 1..(2 * steps) |->
        IF j % 2 = 1 THEN StepMove(call, steps, (j + 1) \div 2)
        ELSE StepWait(call, steps)]

\* the entries of an interpolated swipe with these two waits
InterpolatedEntries(call, steps, press_ms, hold_ms) ==
    << TouchPressAt(call.from_x, call.from_y, call.element_uid), TouchWait(press_ms) >>
    \o StepEntries(call, steps)
    \o << TouchMoveTo(call.to_x, call.to_y, call.element_uid), TouchWait(hold_ms) >>
    \o TouchRelease(call.up)

\* C6 as claimed: the waits after the press and after the landing move store
\* press_seconds*1000 and hold_seconds*1000, whatever their sign.
C6_SwipeStepsAsClaimed ==
    [][ (IsTouchSwipe /\ IsInterpolated(last')) =>
          \A steps \in { FloorSteps(last') } :
             steps >= 1 =>
                Extended(ta, ta',
                    InterpolatedEntries(last', steps,
                                        Ms(SwipeSecondsOf(last'.press_seconds)),
                                        Ms(SwipeSecondsOf(last'.hold_seconds))))
      ]_vars

\* C6, amended: in interpolated mode with swipe_seconds >= 0, delta > 0 and
\* steps = floor(D/delta) >= 1, swipe appends press(start), a wait, then for
\* i = 1..steps a moveTo(start + i*(dx, dy)) followed by a wait of
\* swipe_seconds*1000/steps ms, then the landing moveTo at the end point, a
\* wait, and a release exactly when up is true: 2*steps + 4 entries plus the
\* release.  The wait after the press stores press_seconds*1000 ms and the
\* wait after the landing move hold_seconds*1000 ms when that argument is
\* >= 0, and 500 ms when it is negative.
C6_SwipeSteps ==
    [][ (IsTouchSwipe /\ IsInterpolated(last')) =>
          \A steps \in { FloorSteps(last') } :
             steps >= 1 =>
                /\ raised' = "none"
                /\ Len(ta') = Len(ta) + 2 * steps + 4 + (IF last'.up THEN 1 ELSE 0)
                /\ Extended(ta, ta',
                      InterpolatedEntries(last', steps,
                                          PauseMs(SwipeSecondsOf(last'.press_seconds)),
                                          PauseMs(SwipeSecondsOf(last'.hold_seconds))))
      ]_vars

\* swipe(0, 0, 100, 0, swipe_seconds=1, delta left at 10): 25 entries, the
\* 5th intermediate move at x = 50 followed by a wait of 100 ms, the landing
\* move at x = 100, the release last
C6_Witness ==
    /\ last.op = "TouchActions.swipe"
    /\ <<last.from_x, last.from_y, last.to_x, last.to_y>> = <<Num(0), Num(0), Num(100), Num(0)>>
    /\ last.swipe_seconds = Num(1)
    /\ last.delta = Omitted
    /\ last.element_uid = None
    /\ Len(ta) = 25
    /\ ta[11] = Own(TouchMoveTo(Num(50), Num(0), None))
    /\ ta[12] = Own(TouchWait(Num(100)))
    /\ ta[21] = Own(TouchMoveTo(Num(100), Num(0), None))
    /\ ta[23] = Own(TouchMoveTo(Num(100), Num(0), None))
    /\ ta[25] = Own([action |-> "release"])

---------------------------------------------------------------------------
(* C7 *)

\* C7 as claimed: an interpolated swipe whose step count floor(D/delta) is
\* zero (start == end, or shorter than delta) does not raise and appends
\* only press(start), a wait, one moveTo, a wait and the optional release.
\* (The two waits are taken as pause stores them.)
C7_ZeroStepsAppend ==
    [][ ( /\ IsTouchSwipe
          /\ IsInterpolated(last')
          /\ FloorSteps(last') = 0 )
        => /\ raised' = "none"
           /\ Len(ta') = Len(ta) + 4 + (IF last'.up THEN 1 ELSE 0)
           /\ SubSeq(ta', 1, Len(ta)) = ta
           /\ ta'[Len(ta) + 1] =
                 Own(TouchPressAt(last'.from_x, last'.from_y, last'.element_uid))
           /\ ta'[Len(ta) + 2] =
                 Own(TouchWait(PauseMs(SwipeSecondsOf(last'.press_seconds))))
           /\ TouchEntry(ta'[Len(ta) + 3]).action = "moveTo"
           /\ ta'[Len(ta) + 4] =
                 Own(TouchWait(PauseMs(SwipeSecondsOf(last'.hold_seconds))))
           /\ last'.up => ta'[Len(ta) + 5] = Own([action |-> "release"])
      ]_vars

---------------------------------------------------------------------------
(* SpecConfig: the configuration methods of the five primitive builders *)

\* element_uid of with_origin: None and two elements
ConfigOrigins == { None, Uid("a"), Uid("b") }

\* second of with_duration: None, zero and half a second
ConfigDurations == { None, Num(0), Frac(1, 2) }

\* pressure of with_pressure and count of with_count
ConfigPressures == { Num(0), Frac(1, 2) }
ConfigCounts == { Num(1), Num(2) }

NextConfig ==
    \/ calls < MaxCalls /\ \E p \in Points : CallFingerMovement_with_xy(p[1], p[2])
    \/ calls < MaxCalls /\ \E e \in ConfigOrigins : CallFingerMovement_with_origin(e)
    \/ calls < MaxCalls /\ \E second \in ConfigDurations : CallFingerMovement_with_duration(second)
    \/ calls < MaxCalls /\ \E p \in Points : CallTouchMovement_with_xy(p[1], p[2])
    \/ calls < MaxCalls /\ \E p \in Points : CallTouchPress_with_xy(p[1], p[2])
    \/ calls < MaxCalls /\ \E p \in Points : CallTouchLongPress_with_xy(p[1], p[2])
    \/ calls < MaxCalls /\ \E p \in Points : CallTouchTap_with_xy(p[1], p[2])
    \/ calls < MaxCalls /\ \E e \in ConfigOrigins : CallTouchMovement_with_origin(e)
    \/ calls < MaxCalls /\ \E e \in ConfigOrigins : CallTouchPress_with_origin(e)
    \/ calls < MaxCalls /\ \E e \in ConfigOrigins : CallTouchLongPress_with_origin(e)
    \/ calls < MaxCalls /\ \E e \in ConfigOrigins : CallTouchTap_with_origin(e)
    \/ calls < MaxCalls /\ \E pressure \in ConfigPressures : CallTouchPress_with_pressure(pressure)
    \/ calls < MaxCalls /\ \E count \in ConfigCounts : CallTouchTap_with_count(count)

SpecConfig == Init /\ [][NextConfig]_vars

---------------------------------------------------------------------------
(* C11 *)

XYConfig == { "FingerMovement.with_xy", "TouchMovement.with_xy", "TouchPress.with_xy",
              "TouchLongPress.with_xy", "TouchTap.with_xy" }
OriginConfig == { "FingerMovement.with_origin", "TouchMovement.with_origin",
                  "TouchPress.with_origin", "TouchLongPress.with_origin",
                  "TouchTap.with_origin" }

IsConfig == calls' = calls + 1 /\ last'.op \in MovementConfig \cup TouchConfig

\* the builder a configuration method is called on, as `ret` names it
ConfigBuilder(op) ==
    CASE op \in MovementConfig -> "fm"
      [] op \in { "TouchMovement.with_xy", "TouchMovement.with_origin" } -> "TouchMovement"
      [] op \in { "TouchPress.with_xy", "TouchPress.with_origin",
                  "TouchPress.with_pressure" } -> "TouchPress"
      [] op \in { "TouchLongPress.with_xy", "TouchLongPress.with_origin" } -> "TouchLongPress"
      [] op \in { "TouchTap.with_xy", "TouchTap.with_origin",
                  "TouchTap.with_count" } -> "TouchTap"

\* that builder's record, given the movement record and the touch records
ConfigData(op, movement, touch) ==
    IF op \in MovementConfig THEN movement ELSE touch[ConfigBuilder(op)]

\* the record a builder holds after this call when it held `data` before
ConfigApply(call, data) ==
    CASE call.op = "FingerMovement.with_xy" -> FingerMovement_with_xy(data, call.x, call.y)
      [] call.op = "FingerMovement.with_origin" ->
            FingerMovement_with_origin(data, call.element_uid)
      [] call.op = "FingerMovement.with_duration" ->
            FingerMovement_with_duration(data, call.second)
      [] call.op = "TouchMovement.with_xy" -> TouchMovement_with_xy(data, call.x, call.y)
      [] call.op = "TouchPress.with_xy" -> TouchPress_with_xy(data, call.x, call.y)
      [] call.op = "TouchLongPress.with_xy" -> TouchLongPress_with_xy(data, call.x, call.y)
      [] call.op = "TouchTap.with_xy" -> TouchTap_with_xy(data, call.x, call.y)
      [] call.op = "TouchMovement.with_origin" ->
            TouchMovement_with_origin(data, call.element_uid)
      [] call.op = "TouchPress.with_origin" -> TouchPress_with_origin(data, call.element_uid)
      [] call.op = "TouchLongPress.with_origin" ->
            TouchLongPress_with_origin(data, call.element_uid)
      [] call.op = "TouchTap.with_origin" -> TouchTap_with_origin(data, call.element_uid)
      [] call.op = "TouchPress.with_pressure" -> TouchPress_with_pressure(data, call.pressure)
      [] call.op = "TouchTap.with_count" -> TouchTap_with_count(data, call.count)

\* the calls of one method, over its arguments
ConfigCalls(op) ==
    CASE op \in XYConfig -> { [op |-> op, x |-> p[1], y |-> p[2]] : p \in Points }
      [] op \in OriginConfig -> { [op |-> op, element_uid |-> e] : e \in ConfigOrigins }
      [] op = "FingerMovement.with_duration" ->
            { [op |-> op, second |-> s] : s \in ConfigDurations }
      [] op = "TouchPress.with_pressure" ->
            { [op |-> op, pressure |-> p] : p \in ConfigPressures }
      [] op = "TouchTap.with_count" -> { [op |-> op, count |-> c] : c \in ConfigCounts }

\* with_origin(None) or with_duration(None)
IsNoneCall(call) ==
    \/ call.op \in OriginConfig /\ call.element_uid = None
    \/ call.op = "FingerMovement.with_duration" /\ call.second = None

\* type of a W3C primitive, action of a touch primitive
Discriminant(data) == IF "type" \in DOMAIN data THEN data.type ELSE data.action

\* the record of a builder just constructed
FreshData(op) ==
    CASE ConfigBuilder(op) = "fm" -> FingerMovement_init
      [] ConfigBuilder(op) = "TouchMovement" -> TouchMovement_init
      [] ConfigBuilder(op) = "TouchPress" -> TouchPress_init
      [] ConfigBuilder(op) = "TouchLongPress" -> TouchLongPress_init
      [] ConfigBuilder(op) = "TouchTap" -> TouchTap_init

\* the names of the fields set on a builder's record
FieldsSet(data) ==
    IF "options" \in DOMAIN data THEN DOMAIN data.options ELSE DOMAIN data \ { "type" }

\* returns the same instance, keeps the discriminant, leaves the other
\* builders alone, and a second call with the same arguments changes nothing
ConfigBasics(call, before, after) ==
    /\ raised' = "none"
    /\ ret' = ConfigBuilder(call.op)
    /\ Discriminant(after) = Discriminant(before)
    /\ \A b \in { "TouchMovement", "TouchPress", "TouchLongPress", "TouchTap" } :
          b # ConfigBuilder(call.op) => tp'[b] = tp[b]
    /\ ConfigBuilder(call.op) # "fm" => fm' = fm
    /\ ConfigApply(call, after) = after
    /\ IsNoneCall(call) => after = before
    /\ (IsNoneCall(call) /\ before = FreshData(call.op)) => FieldsSet(after) = {}

---------------------------------------------------------------------------
(* SpecSwipeMix: TouchActions.swipe in both modes on one builder *)

\* <<from_x, from_y, to_x, to_y>>: lengths 30 and 0
MixLines ==
    { <<Num(0), Num(0), Num(30), Num(0)>>,
      <<Num(5), Num(5), Num(5), Num(5)>> }

\* swipe_seconds: instantaneous and interpolated mode
MixSeconds == { None, Num(1) }

NextSwipeMix ==
    \/ calls < MaxGestures /\ \E l \in MixLines, e \in Origins, s \in MixSeconds,
                                 delta \in DeltaArgs, up \in BOOLEAN :
           CallTouchActions_swipe(l[1], l[2], l[3], l[4], e, Omitted, s, delta, Omitted, up)

SpecSwipeMix == Init /\ [][NextSwipeMix]_vars

---------------------------------------------------------------------------
(* C12 *)

\* how many entries of the sequence carry this action
CountOf(data, action) ==
    Cardinality({ i \in 1..Len(data) : TouchEntry(data[i]).action = action })

IsPressOrRelease(action) == action \in { "press", "release" }

\* the press and release entries of the sequence, in order
PressReleaseOf(data) ==
    SelectSeq([i \in 1..Len(data) |-> TouchEntry(data[i]).action], IsPressOrRelease)

\* press and release strictly alternate, from a press to a release
Alternates(s) ==
    /\ Len(s) % 2 = 0
    /\ \A i \in 1..Len(s) : s[i] = IF i % 2 = 1 THEN "press" ELSE "release"

\* the touch is still down: the last press has no release after it
TouchDown(s) == Len(s) > 0 /\ s[Len(s)] = "press"

\* C12: a swipe call that raises appends nothing; a swipe call that returns,
\* in either mode, adds exactly one press entry and one release entry exactly
\* when up is true, the press before the release.  So n returning calls leave
\* n presses and as many releases as calls with up true.  While every call
\* has up true, presses and releases strictly alternate, from a press to a
\* release; after a call with up false the touch is down, and the next
\* returning swipe puts a second press after that press with no release
\* between them.
C12_SwipePressRelease ==
    [][ IsTouchSwipe =>
          \A before \in { PressReleaseOf(ta) }, after \in { PressReleaseOf(ta') } :
             /\ raised' # "none" => ta' = ta
             /\ (last.op = "TouchActions.swipe" /\ raised = "none" /\ ~last.up)
                   => TouchDown(before)
             /\ raised' = "none" =>
                   /\ CountOf(ta', "press") = CountOf(ta, "press") + 1
                   /\ CountOf(ta', "release") =
                         CountOf(ta, "release") + (IF last'.up THEN 1 ELSE 0)
                   /\ after = before \o << "press" >>
                                     \o (IF last'.up THEN << "release" >> ELSE << >>)
                   /\ (Alternates(before) /\ last'.up) => Alternates(after)
                   /\ TouchDown(before) =>
                         /\ after[Len(before)] = "press"
                         /\ after[Len(before) + 1] = "press"
                   /\ TouchDown(after) <=> ~last'.up
      ]_vars

\* an instantaneous swipe with up false, then an interpolated swipe of three
\* steps with up true: press, press, release
C12_Witness ==
    /\ calls = 2
    /\ last.op = "TouchActions.swipe"
    /\ last.swipe_seconds = Num(1)
    /\ last.delta = Omitted
    /\ last.up
    /\ raised = "none"
    /\ Len(ta) = 15
    /\ TouchEntry(ta[4]).action = "wait"
    /\ TouchEntry(ta[5]).action = "press"
    /\ PressReleaseOf(ta) = << "press", "press", "release" >>
    /\ CountOf(ta, "press") = 2
    /\ CountOf(ta, "release") = 1

=============================================================================
